---- MODULE Spec2Model ----
(***************************************************************************)
(* A model of the Unity-YAML reader and writer of src/src/yaml.rs: the     *)
(* Yaml tree, the block parser parse_unity_object, the writer              *)
(* fmt_with_indent, the node queries and the translation walk.             *)
(*                                                                         *)
(* Text is modelled character by character: a str is a sequence of         *)
(* one-character strings, a line is a str without "\n", a document is a    *)
(* sequence of lines.  A HashMap<String, Yaml> is a function from keys     *)
(* (strs) to nodes.                                                        *)
(***************************************************************************)
EXTENDS Integers, Sequences, FiniteSets, TLC

VARIABLES
    doc,        \* the document handed to parse_unity_object (a sequence of lines)
    parsed,     \* what parse_unity_object returned for it, NotRun before the call
    tree,       \* the Yaml tree handed to the writer, the queries or the walk
    iter,       \* the order in which this run's HashMaps iterate their keys
    ret,        \* what the last operation on tree returned, NotRun before any
    given       \* what the document was written from, or the answers translate_yaml gives

vars == <<doc, parsed, tree, iter, ret, given>>

NotRun == [kind |-> "NotRun"]

(***************************************************************************)
(* str helpers, as the standard library computes them.                     *)
(***************************************************************************)

\* s[from..] for a 0-based byte offset
DropFirst(s, n) == SubSeq(s, n + 1, Len(s))

\* s[..n]
TakeFirst(s, n) == SubSeq(s, 1, n)

Spaces(n) == [i \in 1..n |-> " "]

RECURSIVE CountLeading(_, _)
CountLeading(s, c) ==
    IF s # <<>> /\ Head(s) = c THEN 1 + CountLeading(Tail(s), c) ELSE 0

RECURSIVE trim_start(_)
trim_start(s) ==
    IF s # <<>> /\ Head(s) = " " THEN trim_start(Tail(s)) ELSE s

RECURSIVE trim_end(_)
trim_end(s) ==
    IF s # <<>> /\ s[Len(s)] = " " THEN trim_end(TakeFirst(s, Len(s) - 1)) ELSE s

trim(s) == trim_end(trim_start(s))

starts_with(s, c) == s # <<>> /\ Head(s) = c

ends_with(s, c) == s # <<>> /\ s[Len(s)] = c

\* str::find: the 0-based offset of the first c, or -1 for None
find(s, c) ==
    IF \E i \in 1..Len(s) : s[i] = c
    THEN (CHOOSE i \in 1..Len(s) : s[i] = c /\ \A j \in 1..(i - 1) : s[j] # c) - 1
    ELSE -1

\* str::split(c): always at least one part
RECURSIVE split(_, _)
split(s, c) ==
    LET idx == find(s, c) IN
    IF idx < 0 THEN <<s>>
    ELSE <<TakeFirst(s, idx)>> \o split(DropFirst(s, idx + 1), c)

\* a split at every c, not only the first
splitn2_every(s, c) == split(s, c)

\* str::splitn(2, c)
splitn2(s, c) ==
    LET idx == find(s, c) IN
    IF idx < 0 THEN <<s>> ELSE <<TakeFirst(s, idx), DropFirst(s, idx + 1)>>

\* s.strip_prefix('{').and_then(|v| v.strip_suffix('}')).unwrap_or(s)
strip_braces(s) ==
    IF starts_with(s, "{") /\ ends_with(Tail(s), "}")
    THEN SubSeq(s, 2, Len(s) - 1)
    ELSE s

(***************************************************************************)
(* enum Yaml                                                               *)
(***************************************************************************)

Value(s) == [kind |-> "Value", v |-> s]
Hash(m) == [kind |-> "Hash", h |-> m]
Array(a) == [kind |-> "Array", a |-> a]

\* HashMap::new()
EmptyMap == <<>>

\* HashMap::insert: a present key is overwritten
insert(m, k, v) == [x \in (DOMAIN m) \cup {k} |-> IF x = k THEN v ELSE m[x]]

\* for (k, v) in nmap { child_map.insert(k, v); }
insert_all(m, n) ==
    [x \in (DOMAIN m) \cup (DOMAIN n) |-> IF x \in DOMAIN n THEN n[x] ELSE m[x]]

(***************************************************************************)
(* parse_unity_object and its two inner functions.                         *)
(***************************************************************************)

\* line.chars().take_while(|c| *c == ' ').count()
Indent(line) == CountLeading(line, " ")

\* a block that also closes at a line of exactly its own indentation
block_ends_at_own_indent(indent, start_indent) == indent <= start_indent

\* the block termination condition
block_ends(indent, start_indent) == indent < start_indent

\* a nested block parsed at the indentation of the line that opens it
nested_indent_same(indent) == indent

\* the indentation a nested block is parsed at
nested_indent(indent) == indent + 2

\* value.starts_with('{') && value.ends_with('}')
is_inline(value) == starts_with(value, "{") /\ ends_with(value, "}")

\* the body of parse_inline_mapping's for loop, over the parts left
RECURSIVE inline_pairs(_, _)
inline_pairs(parts, map) ==
    IF parts = <<>> THEN map
    ELSE LET kv == splitn2(Head(parts), ":") IN
         inline_pairs(Tail(parts),
                      IF Len(kv) = 2
                      THEN insert(map, trim(kv[1]), Value(trim(kv[2])))
                      ELSE map)

parse_inline_mapping(s) ==
    Hash(inline_pairs(split(strip_braces(s), ","), EmptyMap))

\* the value stored for the right side of "key: value"
scalar_or_inline(value) ==
    IF is_inline(value) THEN parse_inline_mapping(value) ELSE Value(value)

\* Bookkeeping that the code does not keep: the calls of parse_block that
\* returned, each with the offset of its slice in the caller's slice, the
\* length of its slice, its start_indent, the count it returned, the kind of
\* node it returned, the offsets of the lines its own loop handled and the
\* value of i at the head of each iteration of its loop.  Shift moves the
\* records of a call on lines[d..] into the caller's offsets.
Shift(calls, d) ==
    { [c EXCEPT !.start = @ + d,
                !.own = { o + d : o \in @ },
                !.heads = [k \in DOMAIN @ |-> @[k] + d]] : c \in calls }

\* the locals of parse_block at the head of the while loop
BlockStart ==
    [map |-> EmptyMap, arr |-> <<>>, is_array |-> FALSE, i |-> 0,
     panic |-> FALSE, calls |-> {}, own |-> {}, heads |-> <<>>]

\* a block that keeps the keys it collected whenever it collected any
block_result_keeps_keys(st) ==
    IF st.is_array /\ st.map = EmptyMap THEN Array(st.arr) ELSE Hash(st.map)

\* if is_array { ret_arr } else { ret_hash }
block_result(st) == IF st.is_array THEN Array(st.arr) ELSE Hash(st.map)

RECURSIVE parse_block(_, _)
RECURSIVE block_loop(_, _, _)

\* "- ..." : the array element branch, at lines[st.i] with trimmed text
array_element(lines, st, indent, trimmed) ==
    LET i == st.i
        val_str == trim(DropFirst(trimmed, 1))
        idx == find(val_str, ":")
        st1 == [st EXCEPT !.is_array = TRUE, !.own = @ \cup {i}]
    IN
    IF val_str = <<>> THEN
        \* Case 1: panic!, the code after it is never reached
        [st1 EXCEPT !.panic = TRUE]
    ELSE IF idx >= 0 THEN
        \* Case 2: "- key: value"
        LET key == trim(TakeFirst(val_str, idx))
            value == trim(DropFirst(val_str, idx + 1))
            child_map == insert(EmptyMap, key, scalar_or_inline(value))
        IN
        IF i + 1 < Len(lines) /\ Indent(lines[i + 2]) > indent THEN
            LET r == parse_block(DropFirst(lines, i + 1), nested_indent(indent))
                calls == st1.calls \cup Shift(r.calls, i + 1)
            IN
            IF r.panic \/ r.yaml.kind # "Hash" THEN
                [st1 EXCEPT !.panic = TRUE, !.calls = calls]
            ELSE
                [st1 EXCEPT !.i = i + r.consumed + 1,
                            !.calls = calls,
                            !.arr = Append(@, Hash(insert_all(child_map, r.yaml.h)))]
        ELSE
            [st1 EXCEPT !.i = i + 1, !.arr = Append(@, Hash(child_map))]
    ELSE
        \* Case 3: a scalar element
        [st1 EXCEPT !.i = i + 1, !.arr = Append(@, Value(val_str))]

\* "key: value" : the mapping entry branch, the first ':' at offset idx
key_value(lines, st, indent, trimmed, idx) ==
    LET i == st.i
        key == trim(TakeFirst(trimmed, idx))
        val_str == trim(DropFirst(trimmed, idx + 1))
        st1 == [st EXCEPT !.own = @ \cup {i}]
    IN
    IF val_str = <<>> THEN
        LET r == parse_block(DropFirst(lines, i + 1), nested_indent(indent))
            calls == st1.calls \cup Shift(r.calls, i + 1)
        IN
        IF r.panic THEN [st1 EXCEPT !.panic = TRUE, !.calls = calls]
        ELSE [st1 EXCEPT !.i = i + r.consumed + 1,
                         !.calls = calls,
                         !.map = insert(@, key, r.yaml)]
    ELSE
        [st1 EXCEPT !.i = i + 1, !.map = insert(@, key, scalar_or_inline(val_str))]

\* the while loop of parse_block, from the locals st
block_loop(lines, start_indent, at) ==
    IF at.panic \/ ~(at.i < Len(lines)) THEN at
    ELSE
        LET st == [at EXCEPT !.heads = Append(@, at.i)]
            line == lines[st.i + 1]
            indent == Indent(line)
            trimmed == trim(line)
        IN
        IF block_ends(indent, start_indent) THEN st
        ELSE IF trimmed = <<>> THEN
            block_loop(lines, start_indent,
                       [st EXCEPT !.i = @ + 1, !.own = @ \cup {st.i}])
        ELSE IF starts_with(trimmed, "-") THEN
            block_loop(lines, start_indent, array_element(lines, st, indent, trimmed))
        ELSE IF find(trimmed, ":") >= 0 THEN
            block_loop(lines, start_indent,
                       key_value(lines, st, indent, trimmed, find(trimmed, ":")))
        ELSE
            block_loop(lines, start_indent,
                       [st EXCEPT !.i = @ + 1, !.own = @ \cup {st.i}])

\* (Yaml, usize), or a panic that unwinds through every caller
parse_block(lines, start_indent) ==
    LET st == block_loop(lines, start_indent, BlockStart)
        yaml == block_result(st)
    IN
    IF st.panic THEN
        [panic |-> TRUE, yaml |-> Hash(EmptyMap), consumed |-> 0, calls |-> st.calls]
    ELSE
        [panic |-> FALSE, yaml |-> yaml, consumed |-> st.i,
         calls |-> st.calls \cup
                   { [start |-> 0, len |-> Len(lines), start_indent |-> start_indent,
                      consumed |-> st.i, kind |-> yaml.kind, own |-> st.own,
                      heads |-> st.heads] }]

\* a parser that hands back what it has where the code panics
parse_unity_object_partial(lines) ==
    LET r == parse_block(lines, 0) IN
    [kind |-> "Ok", yaml |-> r.yaml, calls |-> r.calls]

parse_unity_object(lines) ==
    LET r == parse_block(lines, 0) IN
    IF r.panic THEN [kind |-> "Panic", calls |-> r.calls]
    ELSE [kind |-> "Ok", yaml |-> r.yaml, calls |-> r.calls]

(***************************************************************************)
(* Documents: every sequence of at most MaxLines lines, each line some     *)
(* indentation of 0..MaxIndent spaces before one of the line texts.        *)
(***************************************************************************)

MaxLines == 3
MaxIndent == 2

LineTexts ==
    { <<>>,                                                 \* blank
      <<"a", ":", " ", "b">>,                               \* a: b
      <<"a", ":">>,                                         \* a:
      <<"-", " ", "a">>,                                    \* - a
      <<"-", " ", "a", ":", " ", "b">>,                     \* - a: b
      <<"-">>,                                              \* -
      <<"a">>,                                              \* a
      <<"b", ":", " ", "{", "a", ":", " ", "b", "}">> }     \* b: {a: b}

Lines == { Spaces(n) \o t : n \in 0..MaxIndent, t \in LineTexts }

InitParse ==
    /\ \E n \in 0..MaxLines : doc \in [1..n -> Lines]
    /\ parsed = NotRun
    /\ tree = NotRun
    /\ iter = <<>>
    /\ ret = NotRun
    /\ given = NotRun

\* Yaml::parse_unity_object(&lines)
ParseUnityObject ==
    /\ parsed = NotRun
    /\ parsed' = parse_unity_object(doc)
    /\ UNCHANGED <<doc, tree, iter, ret, given>>

NextParse == ParseUnityObject

SpecParse == InitParse /\ [][NextParse]_vars

(***************************************************************************)
(* Properties of the parser over SpecParse.                                *)
(***************************************************************************)

Ran == parsed # NotRun

\* the line at 0-based offset o of the document
LineAt(o) == doc[o + 1]

IsBlank(line) == trim(line) = <<>>

IsDash(line) == starts_with(trim(line), "-")

\* "key: value" with a value
IsKeyValue(line) ==
    LET t == trim(line) IN
    /\ ~IsDash(line)
    /\ find(t, ":") >= 0
    /\ trim(DropFirst(t, find(t, ":") + 1)) # <<>>

\* the offset of the first line of slice with fewer than n leading spaces,
\* the length of slice when it has none
FirstShallow(slice, n) ==
    IF \E k \in 1..Len(slice) : Indent(slice[k]) < n
    THEN (CHOOSE k \in 1..Len(slice) :
              /\ Indent(slice[k]) < n
              /\ \A j \in 1..(k - 1) : Indent(slice[j]) >= n) - 1
    ELSE Len(slice)

\* the offsets of the lines a call consumed, itself or through nested calls
Consumed(c) == c.start .. (c.start + c.consumed - 1)

RemoveBlank(d) == SelectSeq(d, LAMBDA l : ~IsBlank(l))

\* C3: a blank line is skipped and never closes a block, at any start_indent:
\* the document parses to what it parses to with its blank lines removed
\* (the same tree, or a panic in both cases).
C3_BlankLinesAreSkipped ==
    Ran =>
        LET other == parse_unity_object(RemoveBlank(doc)) IN
        /\ parsed.kind = other.kind
        /\ parsed.kind = "Ok" => parsed.yaml = other.yaml

\* C4: a call of parse_block with start_indent N consumes no line with fewer
\* than N leading spaces, itself or through its nested calls, and the count it
\* returns is the offset of the first such line of its slice, or the length of
\* the slice when there is none.
C4_IndentationBoundary ==
    Ran =>
        \A c \in parsed.calls :
            /\ \A o \in Consumed(c) : Indent(LineAt(o)) >= c.start_indent
            /\ c.consumed = FirstShallow(DropFirst(doc, c.start), c.start_indent)

\* C4's case: a nested call (start_indent > 0) that consumed lines and handed
\* control back at a shallower line that follows them.
C4_Witness ==
    /\ Ran
    /\ parsed.kind = "Ok"
    /\ \E c \in parsed.calls :
        /\ c.start_indent > 0
        /\ c.consumed > 0
        /\ \E o \in Consumed(c) : ~IsBlank(LineAt(o))
        /\ c.start + c.consumed < Len(doc)
        /\ ~IsBlank(LineAt(c.start + c.consumed))
        /\ Indent(LineAt(c.start + c.consumed)) < c.start_indent

\* the indentation of the first non-blank line a call handled: the block's own
\* level
OwnLevel(c) ==
    LET o == CHOOSE o \in c.own :
                 ~IsBlank(LineAt(o)) /\ \A q \in c.own : q < o => IsBlank(LineAt(q))
    IN Indent(LineAt(o))

HasOwnLine(c) == \E o \in c.own : ~IsBlank(LineAt(o))

\* C5 as claimed: a block whose lines at its own indentation level are all
\* "key: value" entries returns a Mapping, even when a deeper line that no
\* nested block consumed begins with '-'.
C5_OwnLevelDecides ==
    Ran =>
        \A c \in parsed.calls :
            (/\ HasOwnLine(c)
             /\ \A o \in c.own :
                    Indent(LineAt(o)) = OwnLevel(c) /\ ~IsBlank(LineAt(o))
                        => IsKeyValue(LineAt(o)))
                => c.kind = "Hash"

\* C5 as amended: parse_block returns a Sequence exactly when some line its own
\* loop handled (at any indentation >= start_indent, its own level or deeper,
\* and not consumed by a nested call) begins with '-', and a Mapping otherwise.
C5_AnyHandledDashDecides ==
    Ran =>
        \A c \in parsed.calls :
            /\ c.kind \in {"Array", "Hash"}
            /\ c.kind = "Array" <=> \E o \in c.own : IsDash(LineAt(o))

\* C5's case: a block whose own-level lines are all entries and that handled a
\* deeper line beginning with '-'.
C5_Witness ==
    /\ Ran
    /\ \E c \in parsed.calls :
        /\ HasOwnLine(c)
        /\ \A o \in c.own :
               Indent(LineAt(o)) = OwnLevel(c) /\ ~IsBlank(LineAt(o)) => IsKeyValue(LineAt(o))
        /\ \E o \in c.own : Indent(LineAt(o)) > OwnLevel(c) /\ IsDash(LineAt(o))

\* a line of the "key: value" branch: not a sequence item, and with a ':'
IsEntryLine(line) == ~IsBlank(line) /\ ~IsDash(line) /\ find(trim(line), ":") >= 0

\* the key and the right side of an entry line
EntryKey(line) == trim(TakeFirst(trim(line), find(trim(line), ":")))

EntryValue(line) == trim(DropFirst(trim(line), find(trim(line), ":") + 1))

\* the line at offset o is the last of the document or the next line is not
\* indented deeper than it
NoDeeperNext(o) == o + 1 = Len(doc) \/ Indent(LineAt(o + 1)) <= Indent(LineAt(o))

\* the record of the call parse_unity_object makes
IsRoot(c) == c.start = 0 /\ c.start_indent = 0 /\ c.len = Len(doc)

\* C11: zero lines parse to an empty Mapping and not to an error; and an entry
\* with an empty right side that no deeper-indented line follows gets an empty
\* Mapping as its value: the nested call on the lines after it returns a
\* Mapping having consumed nothing, the line after it is left to the block of
\* the entry, and the tree holds the empty Mapping under the key.
C11_EmptyInput ==
    Ran =>
        /\ doc = <<>> => parsed.kind = "Ok" /\ parsed.yaml = Hash(EmptyMap)
        /\ \A c \in parsed.calls : \A o \in c.own :
               IsEntryLine(LineAt(o)) /\ EntryValue(LineAt(o)) = <<>> /\ NoDeeperNext(o)
               =>
               /\ \E d \in parsed.calls :
                      /\ d.start = o + 1
                      /\ d.start_indent = Indent(LineAt(o)) + 2
                      /\ d.consumed = 0
                      /\ d.kind = "Hash"
               /\ o + 1 < Len(doc) => o + 1 \in c.own \/ c.start + c.consumed = o + 1
               /\ (/\ IsRoot(c)
                   /\ parsed.kind = "Ok"
                   /\ c.kind = "Hash"
                   /\ \A q \in c.own :
                          q > o /\ IsEntryLine(LineAt(q))
                              => EntryKey(LineAt(q)) # EntryKey(LineAt(o)))
                  => /\ EntryKey(LineAt(o)) \in DOMAIN parsed.yaml.h
                     /\ parsed.yaml.h[EntryKey(LineAt(o))] = Hash(EmptyMap)

\* C11's case: an entry with an empty right side, followed by a line that is
\* not blank and not deeper, in a document that parsed to a Mapping.
C11_Witness ==
    /\ Ran
    /\ parsed.kind = "Ok"
    /\ parsed.yaml.kind = "Hash"
    /\ \E c \in parsed.calls : \E o \in c.own :
        /\ IsRoot(c)
        /\ IsEntryLine(LineAt(o))
        /\ EntryValue(LineAt(o)) = <<>>
        /\ o + 1 < Len(doc)
        /\ ~IsBlank(LineAt(o + 1))
        /\ Indent(LineAt(o + 1)) <= Indent(LineAt(o))
        /\ parsed.yaml.h[EntryKey(LineAt(o))] = Hash(EmptyMap)

\* what follows the '-' of a sequence item
ItemRest(line) == trim(DropFirst(trim(line), 1))

\* "-" with nothing after it
IsBareDash(line) == IsDash(line) /\ ItemRest(line) = <<>>

\* "- key: value"
IsKeyedItem(line) ==
    IsDash(line) /\ ItemRest(line) # <<>> /\ find(ItemRest(line), ":") >= 0

\* the nested block of the lines after offset o, at the indentation the code
\* parses the fields of an item or the value of an entry at
NestedAfter(o) == parse_block(DropFirst(doc, o + 1), Indent(LineAt(o)) + 2)

\* a "- key: value" item, a deeper-indented line after it, and the nested
\* block of the lines after it a Sequence
NonMappingMerge(o) ==
    /\ IsKeyedItem(LineAt(o))
    /\ o + 1 < Len(doc)
    /\ Indent(LineAt(o + 1)) > Indent(LineAt(o))
    /\ ~NestedAfter(o).panic
    /\ NestedAfter(o).yaml.kind = "Array"

\* C12: a document with a bare "-" item anywhere, or with a "- key: value"
\* item whose deeper-indented nested block resolves to a Sequence, makes
\* parse_unity_object panic, with no tree returned, whatever the other lines
\* are.
C12_MalformedIsFatal ==
    Ran =>
        ((\E o \in 0..(Len(doc) - 1) : IsBareDash(LineAt(o)) \/ NonMappingMerge(o))
            => parsed.kind = "Panic" /\ "yaml" \notin DOMAIN parsed)

\* C12's case: a document that starts with a well-formed entry, has no bare
\* "-", and has a "- key: value" item whose nested block is a Sequence.
C12_Witness ==
    /\ Ran
    /\ parsed.kind = "Panic"
    /\ Len(doc) >= 3
    /\ IsKeyValue(LineAt(0))
    /\ \A o \in 0..(Len(doc) - 1) : ~IsBareDash(LineAt(o))
    /\ \E o \in 1..(Len(doc) - 1) : NonMappingMerge(o)

\* a line of the last branch of the loop: not blank, no '-' in front, no ':'
IsUnrecognized(line) ==
    ~IsBlank(line) /\ ~IsDash(line) /\ find(trim(line), ":") < 0

\* the document without its line at offset o
RemoveAt(d, o) == TakeFirst(d, o) \o DropFirst(d, o + 1)

\* the line at offset o has at least the start_indent of every block whose
\* loop came to it, to handle it or to stop at it
InsideItsBlock(o) ==
    \A c \in parsed.calls :
        o \in c.own \/ c.start + c.consumed = o
            => Indent(LineAt(o)) >= c.start_indent

\* C13: an unrecognized line whose indentation is at least the start_indent of
\* the block it is met in is skipped without a trace: the document parses to
\* what it parses to with that line removed (the same tree, or a panic in both
\* cases).
C13_UnrecognizedLineIsSkipped ==
    Ran =>
        \A o \in 0..(Len(doc) - 1) :
            IsUnrecognized(LineAt(o)) /\ InsideItsBlock(o)
            =>
            LET other == parse_unity_object(RemoveAt(doc, o)) IN
            /\ parsed.kind = other.kind
            /\ parsed.kind = "Ok" => parsed.yaml = other.yaml

\* the offset at which the loop of a returned call stopped
StoppedAt(c) == c.start + c.consumed

\* C14: parse_unity_object comes to a result on every document.  In every
\* call of parse_block that returned, the line index grew by at least 1 from
\* the head of one iteration to the head of the next, and the last iteration
\* either moved the index forward or broke at a line shallower than
\* start_indent; a nested call got a slice shorter than its caller's; the
\* count returned is at most the length of the slice; and no tree is returned
\* only for a document with a bare "-" item or with a "- key: value" item whose
\* nested block is a Sequence.
C14_Terminates ==
    Ran =>
        /\ parsed.kind \in {"Ok", "Panic"}
        /\ \A c \in parsed.calls :
               /\ \A k \in 1..(Len(c.heads) - 1) : c.heads[k] + 1 <= c.heads[k + 1]
               /\ c.heads # <<>> =>
                      /\ c.heads[1] = c.start
                      /\ \/ c.heads[Len(c.heads)] + 1 <= StoppedAt(c)
                         \/ /\ c.heads[Len(c.heads)] = StoppedAt(c)
                            /\ Indent(LineAt(StoppedAt(c))) < c.start_indent
               /\ c.heads = <<>> => c.consumed = 0 /\ c.len = 0
               /\ c.len = Len(doc) - c.start
               /\ IsRoot(c) \/ c.len < Len(doc)
               /\ \A p \in parsed.calls : (c.start - 1) \in p.own => c.len < p.len
               /\ c.consumed <= c.len
        /\ parsed.kind = "Panic" =>
               \E o \in 0..(Len(doc) - 1) : IsBareDash(LineAt(o)) \/ NonMappingMerge(o)

\* C14's case: a document that parsed to a tree through a nested call that
\* ran its loop more than once, consumed lines and broke before the end of
\* its slice, the caller going on after it.
C14_Witness ==
    /\ Ran
    /\ parsed.kind = "Ok"
    /\ \E c \in parsed.calls : \E p \in parsed.calls :
        /\ IsRoot(p)
        /\ (c.start - 1) \in p.own
        /\ Len(c.heads) >= 2
        /\ c.consumed >= 1
        /\ c.consumed < c.len
        /\ \A o \in Consumed(c) : ~IsBlank(LineAt(o))
        /\ StoppedAt(c) \in p.own
        /\ ~IsBlank(LineAt(StoppedAt(c)))

(***************************************************************************)
(* Documents written from a given structure, so that what the parser       *)
(* returns can be compared with what the document was written from.        *)
(***************************************************************************)

RECURSIVE Join(_, _)
Join(parts, sep) ==
    IF parts = <<>> THEN <<>>
    ELSE IF Len(parts) = 1 THEN parts[1]
    ELSE parts[1] \o sep \o Join(Tail(parts), sep)

RECURSIVE Flatten(_)
Flatten(seqs) == IF seqs = <<>> THEN <<>> ELSE Head(seqs) \o Flatten(Tail(seqs))

\* the sequences of at most n distinct elements of S
DistinctSeqs(S, n) ==
    UNION { { q \in [1..k -> S] : \A i, j \in 1..k : i # j => q[i] # q[j] } : k \in 0..n }

Range(q) == { q[i] : i \in 1..Len(q) }

OuterKey == <<"k">>

\* --- inline mappings: '{k1: v1, ..., kn: vn}' ---

MaxPairs == 2

InlineKeys == { <<"a">>, <<"b">>, <<"a", "b">> }

\* values without ',' '{' '}' and without surrounding spaces: a number, a
\* word, a text with ':' in it, a text with a space in it, the empty text
InlineVals == { <<"1">>, <<"b">>, <<"a", ":", "b">>, <<"a", " ", "b">>, <<>> }

\* the pairs of an inline mapping: distinct keys, a value for each
PairSeqs ==
    UNION { { [i \in 1..Len(ks) |-> [k |-> ks[i], v |-> vs[i]]] :
                vs \in [1..Len(ks) -> InlineVals] } :
            ks \in DistinctSeqs(InlineKeys, MaxPairs) }

\* pad spaces around each key and each value, mid spaces after each ':'
InlineText(pairs, pad, mid) ==
    <<"{">> \o
    Join([i \in 1..Len(pairs) |->
            Spaces(pad) \o pairs[i].k \o Spaces(pad) \o <<":">> \o Spaces(mid)
                \o pairs[i].v \o Spaces(pad)],
         <<",", " ">>) \o
    <<"}">>

\* the line "k: {...}" (form "entry") or "- k: {...}" (form "item")
InlineLine(g) ==
    (IF g.form = "item" THEN <<"-", " ">> ELSE <<>>)
        \o OuterKey \o <<":", " ">> \o InlineText(g.pairs, g.pad, g.mid)

InlineInputs ==
    [form : {"entry", "item"}, pairs : PairSeqs, pad : {0, 1}, mid : {0, 1}]

InitInline ==
    /\ given \in InlineInputs
    /\ doc = <<InlineLine(given)>>
    /\ parsed = NotRun
    /\ tree = NotRun
    /\ iter = <<>>
    /\ ret = NotRun

NextInline == ParseUnityObject

SpecInline == InitInline /\ [][NextInline]_vars

\* the node stored for the inline text: under the entry's key, or under the
\* key of the only element of the sequence
InlineNode ==
    IF given.form = "entry" THEN parsed.yaml.h[OuterKey] ELSE parsed.yaml.a[1].h[OuterKey]

\* C7: '{k1: v1, ..., kn: vn}' with distinct keys and no ',' '{' '}' in a
\* value, as the right side of a mapping entry or of a '- key:' item, parses to
\* a Mapping of exactly the n pairs, keys and values trimmed, every value a
\* Scalar holding the raw text.
C7_InlineMapping ==
    Ran =>
        /\ parsed.kind = "Ok"
        /\ IF given.form = "entry"
           THEN parsed.yaml.kind = "Hash" /\ DOMAIN parsed.yaml.h = {OuterKey}
           ELSE /\ parsed.yaml.kind = "Array"
                /\ Len(parsed.yaml.a) = 1
                /\ parsed.yaml.a[1].kind = "Hash"
                /\ DOMAIN parsed.yaml.a[1].h = {OuterKey}
        /\ InlineNode.kind = "Hash"
        /\ DOMAIN InlineNode.h = { given.pairs[i].k : i \in 1..Len(given.pairs) }
        /\ \A i \in 1..Len(given.pairs) :
               InlineNode.h[given.pairs[i].k] = [kind |-> "Value", v |-> given.pairs[i].v]

\* C7's case: a parsed '- key:' item with two padded pairs, one value a number
\* and one value holding a ':'
C7_Witness ==
    /\ Ran
    /\ given.form = "item"
    /\ given.pad = 1
    /\ Len(given.pairs) = 2
    /\ given.pairs[1].v = <<"1">>
    /\ given.pairs[2].v = <<"a", ":", "b">>
    /\ Cardinality(DOMAIN InlineNode.h) = 2

\* --- sequence items with one inline field and deeper fields ---

MaxItems == 2
MaxFields == 2

KeyIndents == {0, 2}
ItemIndents == 0..4

ItemKeys == { <<"a">>, <<"b">> }
FieldKeys == { <<"a">>, <<"b">>, <<"c">> }

\* a right side as written, and the node it stands for
ScalarB == [text |-> <<"b">>, yaml |-> [kind |-> "Value", v |-> <<"b">>]]
ScalarOne == [text |-> <<"1">>, yaml |-> [kind |-> "Value", v |-> <<"1">>]]
InlineAB ==
    [text |-> <<"{", "a", ":", " ", "b", "}">>,
     yaml |-> [kind |-> "Hash", h |-> (<<"a">> :> [kind |-> "Value", v |-> <<"b">>])]]

\* the right side written for a deeper field, by its key
FieldVal(f) == IF f = <<"c">> THEN InlineAB ELSE ScalarOne

\* an item: the key and right side of its '- key: value' line and the keys of
\* its deeper lines, all distinct
Items ==
    UNION { [key : {k}, val : {ScalarB, InlineAB},
             fields : DistinctSeqs(FieldKeys \ {k}, MaxFields)] : k \in ItemKeys }

MergeInputs ==
    UNION { [p : KeyIndents, d : ItemIndents, items : [1..n -> Items]] : n \in 1..MaxItems }

ItemLines(it, d) ==
    << Spaces(d) \o <<"-", " ">> \o it.key \o <<":", " ">> \o it.val.text >>
        \o [j \in 1..Len(it.fields) |->
                Spaces(d + 2) \o it.fields[j] \o <<":", " ">> \o FieldVal(it.fields[j]).text]

MergeDoc(g) ==
    << Spaces(g.p) \o OuterKey \o <<":">> >>
        \o Flatten([i \in 1..Len(g.items) |-> ItemLines(g.items[i], g.d)])

\* the mapping an item stands for
ItemYaml(it) ==
    [kind |-> "Hash",
     h |-> [x \in {it.key} \cup Range(it.fields) |->
                IF x = it.key THEN it.val.yaml ELSE FieldVal(x).yaml]]

InitMerge ==
    /\ given \in MergeInputs
    /\ doc = MergeDoc(given)
    /\ parsed = NotRun
    /\ tree = NotRun
    /\ iter = <<>>
    /\ ret = NotRun

NextMerge == ParseUnityObject

SpecMerge == InitMerge /\ [][NextMerge]_vars

\* the parse returned a Mapping whose only key holds a Sequence of the items,
\* in document order, each with its own fields and no others
MergedAsGiven ==
    /\ parsed.kind = "Ok"
    /\ parsed.yaml.kind = "Hash"
    /\ DOMAIN parsed.yaml.h = {OuterKey}
    /\ parsed.yaml.h[OuterKey].kind = "Array"
    /\ Len(parsed.yaml.h[OuterKey].a) = Len(given.items)
    /\ \A i \in 1..Len(given.items) :
           parsed.yaml.h[OuterKey].a[i] = ItemYaml(given.items[i])

\* C2 as claimed: a key with an empty right side followed by N items
\* '- key: value' at indentation d, each followed by 'key: value' lines at
\* d + 2, parses to a Sequence of N Mappings under that key, each holding its
\* inline field and its own deeper fields; for every d.
C2_MergedAtAnyIndent == Ran => MergedAsGiven

\* C2 as amended: the same, when d is at least the indentation of the key
\* line plus 2 (N >= 1, the keys of one item distinct).
C2_MergedSequenceElement == Ran /\ given.d >= given.p + 2 => MergedAsGiven

\* C2's case: two items parsed, the first with two deeper fields of which one
\* is an inline mapping, the items deeper than the block's start_indent
C2_Witness ==
    /\ Ran
    /\ given.d > given.p + 2
    /\ Len(given.items) = 2
    /\ Len(given.items[1].fields) = 2
    /\ <<"c">> \in Range(given.items[1].fields)
    /\ MergedAsGiven

(***************************************************************************)
(* The writer, the queries and the walk, over every tree of at most        *)
(* MaxSize nodes.                                                          *)
(***************************************************************************)

MaxSize == 4

TreeKeys == { <<"a">>, <<"b">> }
KeyOrder == << <<"a">>, <<"b">> >>

\* the scalar texts of the trees: a word and the empty text
Texts == { <<"x">>, <<>> }

RECURSIVE TreesOfSize(_)
RECURSIVE SeqsOfSize(_)
RECURSIVE MapsOfSize(_, _)

\* the trees of exactly n nodes
TreesOfSize(n) ==
    IF n < 1 THEN {}
    ELSE (IF n = 1 THEN { Value(t) : t \in Texts } ELSE {})
            \cup { Array(q) : q \in SeqsOfSize(n - 1) }
            \cup { Hash(m) : m \in MapsOfSize(n - 1, KeyOrder) }

\* the sequences of trees of n nodes in all
SeqsOfSize(n) ==
    IF n = 0 THEN { <<>> }
    ELSE UNION { { <<t>> \o q : t \in TreesOfSize(k), q \in SeqsOfSize(n - k) } : k \in 1..n }

\* the maps over some of keys whose values have n nodes in all
MapsOfSize(n, keys) ==
    IF keys = <<>> THEN (IF n = 0 THEN { EmptyMap } ELSE {})
    ELSE MapsOfSize(n, Tail(keys))
            \cup UNION { { insert(m, Head(keys), t) :
                             t \in TreesOfSize(k), m \in MapsOfSize(n - k, Tail(keys)) } :
                         k \in 1..n }

Trees == UNION { TreesOfSize(n) : n \in 1..MaxSize }

\* the orders a HashMap may iterate the keys in; one run iterates all its
\* maps in the same order, restricted to the keys each map holds
KeyOrders == { q \in [1..Cardinality(TreeKeys) -> TreeKeys] : Range(q) = TreeKeys }

\* the keys of map in the order this run's HashMaps iterate
iter_keys(map, ord) == SelectSeq(ord, LAMBDA k : k \in DOMAIN map)

\* one space per level
indent_str_one(indent) == Spaces(indent)

\* "  ".repeat(indent)
indent_str(indent) == Spaces(2 * indent)

NL == "\n"

RECURSIVE fmt_with_indent(_, _, _)
RECURSIVE fmt_hash(_, _, _, _)
RECURSIVE fmt_array(_, _, _)

\* for (k, v) in h { ... }, over the keys left
fmt_hash(h, keys, indent, ord) ==
    IF keys = <<>> THEN <<>>
    ELSE LET k == Head(keys)
             v == h[k]
         IN (IF v.kind = "Value"
             THEN indent_str(indent) \o k \o <<":", " ">> \o fmt_with_indent(v, 0, ord) \o <<NL>>
             ELSE indent_str(indent) \o k \o <<":", NL>> \o fmt_with_indent(v, indent + 1, ord))
            \o fmt_hash(h, Tail(keys), indent, ord)

\* for item in a { ... }, over the items left
fmt_array(a, indent, ord) ==
    IF a = <<>> THEN <<>>
    ELSE LET item == Head(a) IN
         indent_str(indent) \o <<"-", " ">>
            \o (IF item.kind = "Value"
                THEN fmt_with_indent(item, 0, ord) \o <<NL>>
                ELSE <<NL>> \o fmt_with_indent(item, indent + 1, ord))
            \o fmt_array(Tail(a), indent, ord)

\* what fmt_with_indent writes to f
fmt_with_indent(yaml, indent, ord) ==
    IF yaml.kind = "Value" THEN yaml.v
    ELSE IF yaml.kind = "Hash" THEN fmt_hash(yaml.h, iter_keys(yaml.h, ord), indent, ord)
    ELSE fmt_array(yaml.a, indent, ord)

\* impl fmt::Display for Yaml
Display(yaml, ord) == fmt_with_indent(yaml, 0, ord)

\* str::lines: the text split at every "\n", a last empty line dropped
str_lines(text) ==
    LET parts == split(text, NL) IN
    IF parts[Len(parts)] = <<>> THEN TakeFirst(parts, Len(parts) - 1) ELSE parts

\* Option<&str>
None == [some |-> FALSE]
Some(x) == [some |-> TRUE, v |-> x]

\* true as soon as one value is a scalar
is_flat_hash_any(yaml) ==
    yaml.kind = "Hash" /\ \E k \in DOMAIN yaml.h : yaml.h[k].kind = "Value"

is_flat_hash(yaml) ==
    IF yaml.kind = "Hash"
    THEN \A k \in DOMAIN yaml.h : yaml.h[k].kind = "Value"
    ELSE FALSE

get_val(yaml) == IF yaml.kind = "Value" THEN Some(yaml.v) ELSE None

\* a lookup that answers with the text of the node itself when it is a scalar
get_str_self(yaml, key) ==
    IF yaml.kind = "Hash"
    THEN IF key \in DOMAIN yaml.h /\ yaml.h[key].kind = "Value"
         THEN Some(yaml.h[key].v) ELSE None
    ELSE get_val(yaml)

get_str(yaml, key) ==
    IF yaml.kind = "Hash"
    THEN IF key \notin DOMAIN yaml.h THEN None      \* map.get(key)?
         ELSE IF yaml.h[key].kind = "Value" THEN Some(yaml.h[key].v)
         ELSE None
    ELSE None

MaxLevel == 1

\* the keys get_str is asked for: the keys of the trees and one no tree has
AskedKeys == TreeKeys \cup { <<"z">> }

InitNode ==
    /\ tree \in Trees
    /\ iter \in KeyOrders
    /\ doc = <<>>
    /\ parsed = NotRun
    /\ ret = NotRun
    /\ given = NotRun

Fresh == ret = NotRun /\ parsed = NotRun

\* tree.fmt_with_indent(f, level)
FmtWithIndent ==
    /\ Fresh
    /\ \E level \in 0..MaxLevel :
        ret' = [op |-> "fmt_with_indent", level |-> level,
                text |-> fmt_with_indent(tree, level, iter)]
    /\ UNCHANGED <<doc, parsed, tree, iter, given>>

\* tree.save_to_file(path) and then Yaml::load_from_file(path), the file
\* written and read back whole
SaveAndLoad ==
    /\ Fresh
    /\ doc' = str_lines(Display(tree, iter))
    /\ parsed' = parse_unity_object(doc')
    /\ UNCHANGED <<tree, iter, ret, given>>

\* tree.is_flat_hash()
IsFlatHash ==
    /\ Fresh
    /\ ret' = [op |-> "is_flat_hash", val |-> is_flat_hash(tree)]
    /\ UNCHANGED <<doc, parsed, tree, iter, given>>

\* tree.get_str(key)
GetStr ==
    /\ Fresh
    /\ \E key \in AskedKeys :
        ret' = [op |-> "get_str", key |-> key, val |-> get_str(tree, key)]
    /\ UNCHANGED <<doc, parsed, tree, iter, given>>

\* tree.get_val()
GetVal ==
    /\ Fresh
    /\ ret' = [op |-> "get_val", val |-> get_val(tree)]
    /\ UNCHANGED <<doc, parsed, tree, iter, given>>

NextNode ==
    \/ FmtWithIndent
    \/ SaveAndLoad
    \/ IsFlatHash
    \/ GetStr
    \/ GetVal

SpecNode == InitNode /\ [][NextNode]_vars

\* C1: parse_unity_object applied to the lines of the serialization of a tree
\* of Scalars, Mappings and Sequences returns an equal tree: the same keys,
\* the same sequence lengths and order, the same scalar texts; sequences of
\* Mappings or Sequences, empty Sequences, empty scalars and a Scalar root
\* included.
C1_RoundTrip == Ran => parsed.kind = "Ok" /\ parsed.yaml = tree

Formatted == ret # NotRun /\ ret.op = "fmt_with_indent"

\* what the claim has a Mapping entry emit at level L
C8_EntryText(k, v, L) ==
    IF v.kind = "Value"
    THEN Spaces(2 * L) \o k \o <<":", " ">> \o v.v \o <<NL>>
    ELSE Spaces(2 * L) \o k \o <<":", NL>> \o fmt_with_indent(v, L + 1, iter)

\* what the claim has a Sequence element emit at level L
C8_ElementText(e, L) ==
    Spaces(2 * L) \o <<"-", " ">> \o
        (IF e.kind = "Value" THEN e.v \o <<NL>>
         ELSE <<NL>> \o fmt_with_indent(e, L + 1, iter))

\* C8: fmt_with_indent(node, L) emits, with 2*L spaces of indent: for a Scalar
\* its text and no newline; for a Mapping, key by key in some order,
\* "indent key: value" and a newline for a Scalar value and otherwise
\* "indent key:", a newline and the value at level L+1; for a Sequence,
\* element by element in order, "indent- " and then the text and a newline
\* for a Scalar and otherwise a newline and the element at level L+1.
C8_SerializerFormat ==
    Formatted =>
        CASE tree.kind = "Value" -> ret.text = tree.v
          [] tree.kind = "Hash" ->
                \E q \in DistinctSeqs(DOMAIN tree.h, Cardinality(DOMAIN tree.h)) :
                    /\ Range(q) = DOMAIN tree.h
                    /\ ret.text =
                        Flatten([i \in 1..Len(q) |-> C8_EntryText(q[i], tree.h[q[i]], ret.level)])
          [] tree.kind = "Array" ->
                ret.text =
                    Flatten([i \in 1..Len(tree.a) |-> C8_ElementText(tree.a[i], ret.level)])

\* C8's case: a Mapping written at level 1 with a Scalar value and a Sequence
\* value that holds a Mapping
C8_Witness ==
    /\ Formatted
    /\ ret.level = 1
    /\ tree.kind = "Hash"
    /\ \E k \in DOMAIN tree.h : tree.h[k].kind = "Value"
    /\ \E k \in DOMAIN tree.h :
        /\ tree.h[k].kind = "Array"
        /\ \E i \in 1..Len(tree.h[k].a) : tree.h[k].a[i].kind = "Hash"

\* C9: is_flat_hash is true exactly for a Mapping none of whose values is a
\* Mapping or a Sequence: true for the empty Mapping, false for a Mapping with
\* a Sequence or Mapping value whatever its other fields, false for a Scalar
\* and for a Sequence.
C9_IsFlatHash ==
    ret # NotRun /\ ret.op = "is_flat_hash" =>
        /\ ret.val \in BOOLEAN
        /\ ret.val <=>
            /\ tree.kind = "Hash"
            /\ ~\E k \in DOMAIN tree.h : tree.h[k].kind \in {"Hash", "Array"}

\* C9's case: a Mapping with a Scalar field and a Sequence field, reported
\* not flat
C9_Witness ==
    /\ ret # NotRun
    /\ ret.op = "is_flat_hash"
    /\ tree.kind = "Hash"
    /\ \E k \in DOMAIN tree.h : tree.h[k].kind = "Value"
    /\ \E k \in DOMAIN tree.h : tree.h[k].kind = "Array"
    /\ ret.val = FALSE

\* C10: get_str(node, key) is the text at key when node is a Mapping that
\* holds key with a Scalar value, and None in every other case; get_val is
\* the text of node when node is a Scalar and None otherwise; neither fails.
C10_GetStr ==
    /\ ret # NotRun /\ ret.op = "get_str" =>
        IF tree.kind = "Hash" /\ ret.key \in DOMAIN tree.h /\ tree.h[ret.key].kind = "Value"
        THEN ret.val = [some |-> TRUE, v |-> tree.h[ret.key].v]
        ELSE ret.val = [some |-> FALSE]
    /\ ret # NotRun /\ ret.op = "get_val" =>
        IF tree.kind = "Value"
        THEN ret.val = [some |-> TRUE, v |-> tree.v]
        ELSE ret.val = [some |-> FALSE]

\* C10's case: get_str on a Mapping with a Scalar at one key and a Sequence at
\* the other, asked for the key of the Scalar
C10_Witness ==
    /\ ret # NotRun
    /\ ret.op = "get_str"
    /\ tree.kind = "Hash"
    /\ \E k \in DOMAIN tree.h : tree.h[k].kind = "Array"
    /\ ret.key \in DOMAIN tree.h
    /\ tree.h[ret.key].kind = "Value"
    /\ ret.val.some

(***************************************************************************)
(* The translation walk.  translate_yaml lives in crate::unity_types,      *)
(* outside these sources: given.ok is the set of nodes it answers Ok for.  *)
(***************************************************************************)

\* translate_yaml(value): Ok with the translation of value, or Err
translate_yaml(value, ok) ==
    IF value \in ok THEN [kind |-> "Ok", text |-> value] ELSE [kind |-> "Err"]

is_fully_translatable(yaml, ok) ==
    IF yaml.kind = "Hash"
    THEN \A k \in DOMAIN yaml.h :
            \/ yaml.h[k].kind = "Value"
            \/ yaml.h[k].kind = "Hash" /\ translate_yaml(yaml.h[k], ok).kind = "Ok"
    ELSE FALSE

RECURSIVE translate_end_level_unity_objects(_, _, _)
RECURSIVE translate_entries(_, _, _, _, _)

\* for (key, value) in map { ... }, over the keys left, results so far
translate_entries(map, keys, results, ok, ord) ==
    IF keys = <<>> THEN
        IF results = <<>>
        THEN [kind |-> "Err", msg |-> "No translatable Unity sub-hashes found."]
        ELSE [kind |-> "Ok", results |-> results]
    ELSE
        LET key == Head(keys)
            value == map[key]
        IN
        IF is_fully_translatable(value, ok) THEN
            IF translate_yaml(value, ok).kind = "Ok"
            THEN translate_entries(map, Tail(keys),
                    Append(results, [tag |-> "Translated", key |-> key,
                                     body |-> translate_yaml(value, ok).text]),
                    ok, ord)
            ELSE [kind |-> "Panic"]                       \* panic!
        ELSE
            LET sub == translate_end_level_unity_objects(value, ok, ord) IN
            IF sub.kind = "Panic" THEN sub
            ELSE IF sub.kind = "Ok"
            THEN translate_entries(map, Tail(keys),
                    Append(results, [tag |-> "Nested", key |-> key, body |-> sub.results]),
                    ok, ord)
            ELSE translate_entries(map, Tail(keys), results, ok, ord)

translate_end_level_unity_objects(yaml, ok, ord) ==
    IF yaml.kind = "Hash"
    THEN translate_entries(yaml.h, iter_keys(yaml.h, ord), <<>>, ok, ord)
    ELSE [kind |-> "Err", msg |-> "Top-level YAML is not a hash."]

RECURSIVE Descendants(_)
\* the nodes below yaml
Descendants(yaml) ==
    LET children == IF yaml.kind = "Hash" THEN { yaml.h[k] : k \in DOMAIN yaml.h }
                    ELSE IF yaml.kind = "Array" THEN Range(yaml.a)
                    ELSE {}
    IN children \cup UNION { Descendants(c) : c \in children }

InitTranslate ==
    /\ tree \in Trees
    /\ iter \in KeyOrders
    /\ given \in [ok : SUBSET { n \in Descendants(tree) : n.kind = "Hash" }]
    /\ doc = <<>>
    /\ parsed = NotRun
    /\ ret = NotRun

\* tree.translate_end_level_unity_objects()
TranslateEndLevelUnityObjects ==
    /\ ret = NotRun
    /\ ret' = [op |-> "translate_end_level_unity_objects",
               val |-> translate_end_level_unity_objects(tree, given.ok, iter)]
    /\ UNCHANGED <<doc, parsed, tree, iter, given>>

NextTranslate == TranslateEndLevelUnityObjects

SpecTranslate == InitTranslate /\ [][NextTranslate]_vars

\* C6: whatever translate_yaml answers for the sub-nodes, the walk returns Ok
\* or Err and never aborts: a child translate_yaml fails on is walked into,
\* not panicked on.
C6_WalkNeverAborts ==
    ret # NotRun => ret.val.kind \in {"Ok", "Err"}

====
